---- MODULE Spec2Model ----
(***************************************************************************)
(* Authentication and authorization core of the university user-directory  *)
(* backend: password login, Google OAuth login, refresh, the JWT access    *)
(* guard, the roles guard, and the user store operations they depend on.   *)
(*                                                                         *)
(* Strings that the code transforms (emails, usernames) are sequences of   *)
(* one-character strings, so that toLowerCase, split and replace are       *)
(* computed character by character.  Other strings are opaque.             *)
(***************************************************************************)
EXTENDS Integers, Sequences, FiniteSets, TLC

VARIABLES
    config,   \* environment read by ConfigService
    phase,    \* "boot" | "running" | "failed": Nest bootstrap of the providers
    users,    \* rows of table `users`; the row at index i has id i
    clock,    \* [now |-> seconds, ticks |-> number of clock steps taken]
    issued,   \* the token pair the client holds: {} or {pair}
    resp,     \* outcome of the last handled request
    inflight  \* Google callbacks between their awaits, by request number

vars == <<config, phase, users, clock, issued, resp, inflight>>

----------------------------------------------------------------------------
(* Bounds of the model *)

MaxTicks == 1          \* clock steps explored
MaxRoles == 2          \* longest @Roles list explored
MaxUses == 2           \* successful refreshes counted per held refresh token
MaxRequests == 2       \* Google callbacks in flight at the same time

----------------------------------------------------------------------------
(* Values *)

null == "null"                         \* JS null / undefined of a string
None == [none |-> TRUE]                \* JS null / undefined of an object

UserRole == {"ADMIN", "PRESIDENT", "VICE_PRESIDENT", "DIRECTOR", "OFFICE_HEAD"}
UserStatus == {"ACTIVE", "INACTIVE", "PENDING", "SUSPENDED", "DELETED"}
Campus == {"TALISAY", "BINALBAGAN", "FORTUNE_TOWN", "ALIJIS"}

accessExpirationSeconds == 15 * 60
refreshExpirationSeconds == 7 * 24 * 60 * 60

Upper == <<"A","B","C","D","E","F","G","H","I","J","K","L","M",
           "N","O","P","Q","R","S","T","U","V","W","X","Y","Z">>
Lower == <<"a","b","c","d","e","f","g","h","i","j","k","l","m",
           "n","o","p","q","r","s","t","u","v","w","x","y","z">>
Digits == {"0","1","2","3","4","5","6","7","8","9"}

Range(s) == {s[i] : i \in DOMAIN s}

\* the lower-case letter of each upper-case letter
LowerOf == [c \in Range(Upper) |-> Lower[CHOOSE i \in DOMAIN Upper : Upper[i] = c]]

\* the characters the class [a-z0-9] matches
AlnumLower == Range(Lower) \cup Digits

\* String.prototype.toLowerCase, one character
LowerChar(c) == IF c \in DOMAIN LowerOf THEN LowerOf[c] ELSE c

\* String.prototype.toLowerCase
toLowerCase(s) == [i \in DOMAIN s |-> LowerChar(s[i])]

\* s.split('@')[0]
LocalPart(s) ==
    IF \E i \in DOMAIN s : s[i] = "@"
    THEN SubSeq(s, 1, (CHOOSE i \in DOMAIN s :
                          s[i] = "@" /\ \A j \in 1..(i-1) : s[j] # "@") - 1)
    ELSE s

\* s.replace(/[^a-z0-9]/g, '_')
ReplaceNonAlnum(s) ==
    [i \in DOMAIN s |-> IF s[i] \in AlnumLower THEN s[i] ELSE "_"]

\* username generated by googleLogin from the e-mail address
usernameFromEmail(email) == ReplaceNonAlnum(toLowerCase(LocalPart(email)))

\* bcrypt.hash(plain, 10): opaque one-way value
bcryptHash(plain) == [bcrypt |-> plain]

\* bcrypt.compare(plain, hash)
bcryptCompare(plain, hash) == hash = bcryptHash(plain)

----------------------------------------------------------------------------
(* Inputs *)

InputEmails == { <<"A",".","b","@","u">>, <<"a",".","b","@","v">> }
InputUsernames == { <<"A","_","b">> }
InputPasswords == { "SecureP@ss1", "TempPass@123" }
InputRoles == { "ADMIN" }
InputStatuses == { "ACTIVE", "INACTIVE" }
InputPictures == { null, "g.png" }

\* Environments the process may be started with.  configService.get returns
\* undefined (null) for a key that is not set.
Configs ==
    { [JWT_SECRET |-> "k1", JWT_REFRESH_SECRET |-> "k2",
       DEFAULT_USER_PASSWORD |-> null, DEFAULT_USER_ROLE |-> null,
       DEFAULT_USER_CAMPUS |-> null],
      [JWT_SECRET |-> "k1", JWT_REFRESH_SECRET |-> "k1",
       DEFAULT_USER_PASSWORD |-> "SecureP@ss1", DEFAULT_USER_ROLE |-> "ADMIN",
       DEFAULT_USER_CAMPUS |-> "ALIJIS"],
      [JWT_SECRET |-> null, JWT_REFRESH_SECRET |-> "k2",
       DEFAULT_USER_PASSWORD |-> null, DEFAULT_USER_ROLE |-> null,
       DEFAULT_USER_CAMPUS |-> null],
      [JWT_SECRET |-> "k1", JWT_REFRESH_SECRET |-> null,
       DEFAULT_USER_PASSWORD |-> null, DEFAULT_USER_ROLE |-> null,
       DEFAULT_USER_CAMPUS |-> null] }

\* configService.get<string>(key, defaultValue)
configGet(cfg, key, defaultValue) ==
    IF cfg[key] = null THEN defaultValue ELSE cfg[key]

----------------------------------------------------------------------------
(* The store: table `users` behind PrismaService *)

Ids(us) == DOMAIN us

\* prisma.user.findUnique({ where: { id } })
findUniqueById(us, id) == IF id \in Ids(us) THEN us[id] ELSE None

\* prisma.user.findUnique({ where: { email } })
findUniqueByEmail(us, email) ==
    IF \E i \in Ids(us) : us[i].email = email
    THEN us[CHOOSE i \in Ids(us) : us[i].email = email]
    ELSE None

\* prisma.user.findUnique({ where: { username } })
findUniqueByUsername(us, username) ==
    IF \E i \in Ids(us) : us[i].username = username
    THEN us[CHOOSE i \in Ids(us) : us[i].username = username]
    ELSE None

\* findFirst that compares the address as typed, without toLowerCase
findFirstByEmail_asTyped(us, email) ==
    IF \E i \in Ids(us) : us[i].email = email /\ ~us[i].deleted
    THEN us[CHOOSE i \in Ids(us) : us[i].email = email /\ ~us[i].deleted]
    ELSE None

\* findFirst without the deleted filter
findFirstByEmail_anyRow(us, email) ==
    findUniqueByEmail(us, toLowerCase(email))

\* prisma.user.findFirst({ where: { email: email.toLowerCase(), deleted: false } })
findFirstByEmail(us, email) ==
    LET e == toLowerCase(email)
    IN  IF \E i \in Ids(us) : us[i].email = e /\ ~us[i].deleted
        THEN us[CHOOSE i \in Ids(us) : us[i].email = e /\ ~us[i].deleted]
        ELSE None

\* the unique index on email alone
UniqueViolation_emailOnly(us, data) ==
    \E i \in Ids(us) : us[i].email = data.email

\* unique indexes users_email_key and users_username_key
UniqueViolation(us, data) ==
    \E i \in Ids(us) : us[i].email = data.email \/ us[i].username = data.username

\* row inserted by prisma.user.create: AUTO_INCREMENT id and column defaults
NewRow(us, data) ==
    [id |-> Len(us) + 1,
     email |-> data.email,
     username |-> data.username,
     firstName |-> data.firstName,
     lastName |-> data.lastName,
     password |-> data.password,
     role |-> IF "role" \in DOMAIN data THEN data.role ELSE "OFFICE_HEAD",
     status |-> IF "status" \in DOMAIN data THEN data.status ELSE "PENDING",
     campus |-> data.campus,
     profilePic |-> IF "profilePic" \in DOMAIN data THEN data.profilePic
                    ELSE "no-photo.png",
     lastLoginAt |-> None,
     deleted |-> FALSE]

\* prisma.user.create({ data }): the new table, or P2002 on a unique index
prismaCreate(us, data) ==
    IF UniqueViolation(us, data)
    THEN [ok |-> FALSE, users |-> us, user |-> None]
    ELSE [ok |-> TRUE, users |-> Append(us, NewRow(us, data)),
          user |-> NewRow(us, data)]

\* prisma.user.update({ where: { id }, data }): the row with data's fields set
UpdatedRow(row, data) ==
    [f \in DOMAIN row |-> IF f \in DOMAIN data THEN data[f] ELSE row[f]]

prismaUpdate(us, id, data) ==
    [us EXCEPT ![id] = UpdatedRow(us[id], data)]

\* UsersService.updateLastLogin: lastLoginAt becomes new Date()
updateLastLogin(us, id, now) ==
    prismaUpdate(us, id, [lastLoginAt |-> [time |-> now]])

----------------------------------------------------------------------------
(* Exceptions and results *)

\* new UnauthorizedException(message)
UnauthorizedException(message) ==
    [name |-> "UnauthorizedException", status |-> 401, message |-> message]

\* new ConflictException(message)
ConflictException(message) ==
    [name |-> "ConflictException", status |-> 409, message |-> message]

\* new NotFoundException(message)
NotFoundException(message) ==
    [name |-> "NotFoundException", status |-> 404, message |-> message]

\* Prisma.PrismaClientKnownRequestError with code P2002: not an HttpException
PrismaP2002 ==
    [name |-> "PrismaClientKnownRequestError", status |-> 0, message |-> "P2002"]

NoError == [name |-> "none", status |-> 200, message |-> ""]

----------------------------------------------------------------------------
(* JSON web tokens: JwtService.sign and the verification of passport-jwt *)

\* HMAC of the encoded header and payload under a secret
HMAC(secret, payload) == [key |-> secret, data |-> payload]

\* jwtService.sign(payload, { secret, expiresIn }): iat and exp are added
jwtSign(payload, secret, expiresIn, now) ==
    LET claims == payload @@ [iat |-> now, exp |-> now + expiresIn]
    IN  [payload |-> claims, signature |-> HMAC(secret, claims)]

\* verification that accepts a token only at the instant it was issued
jwtVerify_onlyAtIssue(token, secret, now) ==
    IF token.signature # HMAC(secret, token.payload) THEN "JsonWebTokenError"
    ELSE IF now > token.payload.iat THEN "TokenExpiredError"
    ELSE "valid"

\* verification with ignoreExpiration: true
jwtVerify_ignoreExpiration(token, secret, now) ==
    IF token.signature # HMAC(secret, token.payload) THEN "JsonWebTokenError"
    ELSE "valid"

\* jsonwebtoken.verify(token, secretOrKey) with ignoreExpiration: false
jwtVerify(token, secret, now) ==
    IF token.signature # HMAC(secret, token.payload) THEN "JsonWebTokenError"
    ELSE IF now >= token.payload.exp THEN "TokenExpiredError"
    ELSE "valid"

\* access-token claims that carry the default role instead of the account's
accessPayload_defaultRole(userId, email, role) ==
    [sub |-> userId, email |-> email, role |-> "OFFICE_HEAD"]

\* claims of the access token
accessPayload(userId, email, role) ==
    [sub |-> userId, email |-> email, role |-> role]

\* claims of the refresh token
refreshPayload(userId, email) ==
    [sub |-> userId, email |-> email, type |-> "refresh"]

\* AuthService.generateTokens
generateTokens(cfg, now, userId, email, role) ==
    [accessToken |-> jwtSign(accessPayload(userId, email, role),
                             cfg.JWT_SECRET, accessExpirationSeconds, now),
     refreshToken |-> jwtSign(refreshPayload(userId, email),
                              cfg.JWT_REFRESH_SECRET, refreshExpirationSeconds, now),
     expiresIn |-> accessExpirationSeconds,
     tokenType |-> "Bearer"]

\* payload.type of a decoded token; undefined when the claim is absent
payloadType(payload) ==
    IF "type" \in DOMAIN payload THEN payload.type ELSE null

----------------------------------------------------------------------------
(* AuthService *)

\* the user object returned by login and googleLogin
LoginUser(user) ==
    [id |-> user.id, email |-> user.email, username |-> user.username,
     firstName |-> user.firstName, lastName |-> user.lastName,
     role |-> user.role, status |-> user.status, campus |-> user.campus,
     profilePic |-> user.profilePic]

\* login: thrown when no account that is not deleted has the e-mail address
loginUserNotFound == UnauthorizedException("Invalid email or password")

\* login: thrown when the account's status is not ACTIVE
loginNotActive ==
    UnauthorizedException("Your account is not active. Please contact administrator.")

\* a wrong-password failure worded differently from the unknown-address one
loginPasswordInvalid_distinct == UnauthorizedException("Invalid password")

\* login: thrown when bcrypt.compare fails
loginPasswordInvalid == UnauthorizedException("Invalid email or password")

\* login that compares the password before it looks at the status
login_passwordFirst(us, cfg, now, loginDto) ==
    LET user == findFirstByEmail(us, loginDto.email)
    IN  IF user = None
        THEN [users |-> us, error |-> loginUserNotFound, tokens |-> None,
              user |-> None]
        ELSE IF ~bcryptCompare(loginDto.password, user.password)
        THEN [users |-> us, error |-> loginPasswordInvalid, tokens |-> None,
              user |-> None]
        ELSE IF user.status # "ACTIVE"
        THEN [users |-> us, error |-> loginNotActive, tokens |-> None, user |-> None]
        ELSE [users |-> us, error |-> NoError,
              tokens |-> generateTokens(cfg, now, user.id, user.email, user.role),
              user |-> LoginUser(user)]

\* login that also records the time of a successful login on the row
login_recordsLastLogin(us, cfg, now, loginDto) ==
    LET user == findFirstByEmail(us, loginDto.email)
    IN  IF user = None
        THEN [users |-> us, error |-> loginUserNotFound, tokens |-> None,
              user |-> None]
        ELSE IF user.status # "ACTIVE"
        THEN [users |-> us, error |-> loginNotActive, tokens |-> None, user |-> None]
        ELSE IF ~bcryptCompare(loginDto.password, user.password)
        THEN [users |-> us, error |-> loginPasswordInvalid, tokens |-> None,
              user |-> None]
        ELSE [users |-> updateLastLogin(us, user.id, now), error |-> NoError,
              tokens |-> generateTokens(cfg, now, user.id, user.email, user.role),
              user |-> LoginUser(user)]

\* AuthService.login; users is the table after the call: login issues no write
login(us, cfg, now, loginDto) ==
    LET user == findFirstByEmail(us, loginDto.email)
    IN  IF user = None
        THEN [users |-> us, error |-> loginUserNotFound, tokens |-> None,
              user |-> None]
        ELSE IF user.status # "ACTIVE"
        THEN [users |-> us, error |-> loginNotActive, tokens |-> None, user |-> None]
        ELSE IF ~bcryptCompare(loginDto.password, user.password)
        THEN [users |-> us, error |-> loginPasswordInvalid, tokens |-> None,
              user |-> None]
        ELSE [users |-> us, error |-> NoError,
              tokens |-> generateTokens(cfg, now, user.id, user.email, user.role),
              user |-> LoginUser(user)]

\* creation data that makes the new account ACTIVE at once
googleCreateData_active(cfg, googleUser) ==
    [email |-> toLowerCase(googleUser.email),
     username |-> usernameFromEmail(googleUser.email),
     firstName |-> googleUser.firstName,
     lastName |-> googleUser.lastName,
     password |-> bcryptHash(configGet(cfg, "DEFAULT_USER_PASSWORD", "TempPass@123")),
     role |-> configGet(cfg, "DEFAULT_USER_ROLE", "OFFICE_HEAD"),
     status |-> "ACTIVE",
     campus |-> configGet(cfg, "DEFAULT_USER_CAMPUS", "TALISAY"),
     profilePic |-> IF googleUser.picture # null THEN googleUser.picture
                    ELSE "no-photo.png"]

\* data of the row googleLogin creates for an unknown e-mail address
googleCreateData(cfg, googleUser) ==
    [email |-> toLowerCase(googleUser.email),
     username |-> usernameFromEmail(googleUser.email),
     firstName |-> googleUser.firstName,
     lastName |-> googleUser.lastName,
     password |-> bcryptHash(configGet(cfg, "DEFAULT_USER_PASSWORD", "TempPass@123")),
     role |-> configGet(cfg, "DEFAULT_USER_ROLE", "OFFICE_HEAD"),
     status |-> "PENDING",
     campus |-> configGet(cfg, "DEFAULT_USER_CAMPUS", "TALISAY"),
     profilePic |-> IF googleUser.picture # null THEN googleUser.picture
                    ELSE "no-photo.png"]

\* the picture test without the guard against a missing picture
pictureChanged_noNullCheck(googleUser, user) ==
    googleUser.picture # user.profilePic

\* googleLogin, existing account: `picture && picture !== user.profilePic`
pictureChanged(googleUser, user) ==
    googleUser.picture # null /\ googleUser.picture # user.profilePic

\* googleLogin that refuses tokens to an account that is not ACTIVE, as login does
googleLogin_activeOnly(us, cfg, now, googleUser) ==
    LET found == findFirstByEmail(us, googleUser.email)
        created == prismaCreate(us, googleCreateData(cfg, googleUser))
        us2 == IF found # None
               THEN IF pictureChanged(googleUser, found)
                    THEN prismaUpdate(us, found.id, [profilePic |-> googleUser.picture])
                    ELSE us
               ELSE created.users
        user == IF found # None THEN us2[found.id] ELSE created.user
    IN  IF found = None /\ ~created.ok
        THEN [users |-> us, error |-> PrismaP2002, tokens |-> None, user |-> None]
        ELSE IF user.status # "ACTIVE"
        THEN [users |-> us2, error |-> loginNotActive, tokens |-> None, user |-> None]
        ELSE [users |-> us2, error |-> NoError,
              tokens |-> generateTokens(cfg, now, user.id, user.email, user.role),
              user |-> LoginUser(user)]

\* AuthService.googleLogin after `await findFirst` has answered with found:
\* the update or the create on the table as it is by then, and the tokens
googleLoginAfterLookup(us, cfg, now, googleUser, found) ==
    LET created == prismaCreate(us, googleCreateData(cfg, googleUser))
        us2 == IF found # None
               THEN IF pictureChanged(googleUser, found)
                    THEN prismaUpdate(us, found.id, [profilePic |-> googleUser.picture])
                    ELSE us
               ELSE created.users
        user == IF found # None THEN us2[found.id] ELSE created.user
    IN  IF found = None /\ ~created.ok
        THEN [users |-> us, error |-> PrismaP2002, tokens |-> None, user |-> None]
        ELSE [users |-> us2, error |-> NoError,
              tokens |-> generateTokens(cfg, now, user.id, user.email, user.role),
              user |-> LoginUser(user)]

\* AuthService.googleLogin, with nothing else running between its awaits
googleLogin(us, cfg, now, googleUser) ==
    googleLoginAfterLookup(us, cfg, now, googleUser,
                           findFirstByEmail(us, googleUser.email))

\* AuthController.googleAuthCallback: the redirect it answers with, for the
\* result of googleLogin or for whatever googleLogin threw
googleAuthCallback(result) ==
    IF result.error = NoError
    THEN [status |-> 302,
          location |-> "/auth/callback?accessToken=&refreshToken=&expiresIn=",
          tokens |-> result.tokens]
    ELSE [status |-> 302, location |-> "/auth/callback?error=authentication_failed",
          tokens |-> None]

\* refreshTokens without the status check
refreshTokens_noStatus(us, cfg, now, userId) ==
    LET user == findUniqueById(us, userId)
    IN  IF user = None \/ user.deleted
        THEN [error |-> UnauthorizedException("User not found"), tokens |-> None]
        ELSE [error |-> NoError,
              tokens |-> generateTokens(cfg, now, user.id, user.email, user.role)]

\* refreshTokens that signs the schema's default role instead of the stored one
refreshTokens_defaultRole(us, cfg, now, userId) ==
    LET user == findUniqueById(us, userId)
    IN  IF user = None \/ user.deleted
        THEN [error |-> UnauthorizedException("User not found"), tokens |-> None]
        ELSE IF user.status # "ACTIVE"
        THEN [error |-> UnauthorizedException("User account is not active"),
              tokens |-> None]
        ELSE [error |-> NoError,
              tokens |-> generateTokens(cfg, now, user.id, user.email, "OFFICE_HEAD")]

\* AuthService.refreshTokens
refreshTokens(us, cfg, now, userId) ==
    LET user == findUniqueById(us, userId)
    IN  IF user = None \/ user.deleted
        THEN [error |-> UnauthorizedException("User not found"), tokens |-> None]
        ELSE IF user.status # "ACTIVE"
        THEN [error |-> UnauthorizedException("User account is not active"),
              tokens |-> None]
        ELSE [error |-> NoError,
              tokens |-> generateTokens(cfg, now, user.id, user.email, user.role)]

----------------------------------------------------------------------------
(* Passport strategies and guards *)

\* the columns JwtStrategy.validate and RefreshTokenStrategy.validate select
SelectedUser(user) ==
    [id |-> user.id, email |-> user.email, username |-> user.username,
     firstName |-> user.firstName, lastName |-> user.lastName,
     role |-> user.role, status |-> user.status, campus |-> user.campus,
     profilePic |-> user.profilePic, deleted |-> user.deleted]

\* validate that trusts the token: any stored row of payload.sub is accepted
JwtStrategy_validate_trusting(us, payload) ==
    LET user == findUniqueById(us, payload.sub)
    IN  IF user = None
        THEN [error |-> UnauthorizedException("User not found or has been deleted"),
              user |-> None]
        ELSE [error |-> NoError, user |-> SelectedUser(user)]

\* validate without the status check
JwtStrategy_validate_noStatus(us, payload) ==
    LET user == findUniqueById(us, payload.sub)
    IN  IF user = None \/ user.deleted
        THEN [error |-> UnauthorizedException("User not found or has been deleted"),
              user |-> None]
        ELSE [error |-> NoError, user |-> SelectedUser(user)]

\* validate that also refuses a token whose role claim differs from the stored row
JwtStrategy_validate_claimsBound(us, payload) ==
    LET user == findUniqueById(us, payload.sub)
    IN  IF user = None \/ user.deleted
        THEN [error |-> UnauthorizedException("User not found or has been deleted"),
              user |-> None]
        ELSE IF user.status # "ACTIVE"
        THEN [error |-> UnauthorizedException("User account is not active"),
              user |-> None]
        ELSE IF "role" \in DOMAIN payload /\ payload.role # user.role
        THEN [error |-> UnauthorizedException("Unauthorized"), user |-> None]
        ELSE [error |-> NoError, user |-> SelectedUser(user)]

\* validate that attaches the role claim of the token instead of the stored role
JwtStrategy_validate_claimRole(us, payload) ==
    LET user == findUniqueById(us, payload.sub)
    IN  IF user = None \/ user.deleted
        THEN [error |-> UnauthorizedException("User not found or has been deleted"),
              user |-> None]
        ELSE IF user.status # "ACTIVE"
        THEN [error |-> UnauthorizedException("User account is not active"),
              user |-> None]
        ELSE [error |-> NoError,
              user |-> [SelectedUser(user) EXCEPT
                          !.role = IF "role" \in DOMAIN payload THEN payload.role
                                   ELSE user.role]]

\* JwtStrategy.validate
JwtStrategy_validate(us, payload) ==
    LET user == findUniqueById(us, payload.sub)
    IN  IF user = None \/ user.deleted
        THEN [error |-> UnauthorizedException("User not found or has been deleted"),
              user |-> None]
        ELSE IF user.status # "ACTIVE"
        THEN [error |-> UnauthorizedException("User account is not active"),
              user |-> None]
        ELSE [error |-> NoError, user |-> SelectedUser(user)]

\* refresh validate without the payload.type check
RefreshTokenStrategy_validate_noType(us, payload) ==
    LET user == findUniqueById(us, payload.sub)
    IN  IF user = None \/ user.deleted
        THEN [error |-> UnauthorizedException("User not found or has been deleted"),
              user |-> None]
        ELSE IF user.status # "ACTIVE"
        THEN [error |-> UnauthorizedException("User account is not active"),
              user |-> None]
        ELSE [error |-> NoError, user |-> SelectedUser(user)]

\* RefreshTokenStrategy.validate
RefreshTokenStrategy_validate(us, payload) ==
    LET user == findUniqueById(us, payload.sub)
    IN  IF payloadType(payload) # "refresh"
        THEN [error |-> UnauthorizedException("Invalid token type"), user |-> None]
        ELSE IF user = None \/ user.deleted
        THEN [error |-> UnauthorizedException("User not found or has been deleted"),
              user |-> None]
        ELSE IF user.status # "ACTIVE"
        THEN [error |-> UnauthorizedException("User account is not active"),
              user |-> None]
        ELSE [error |-> NoError, user |-> SelectedUser(user)]

\* AuthGuard('jwt'): bearer token of the Authorization header, verified with
\* JWT_SECRET, then JwtStrategy.validate
AuthGuardJwt(us, cfg, now, token) ==
    IF token = None
    THEN [state |-> "TokenMissing", error |-> UnauthorizedException("Unauthorized"),
          user |-> None]
    ELSE IF jwtVerify(token, cfg.JWT_SECRET, now) = "JsonWebTokenError"
    THEN [state |-> "TokenInvalid", error |-> UnauthorizedException("Unauthorized"),
          user |-> None]
    ELSE IF jwtVerify(token, cfg.JWT_SECRET, now) = "TokenExpiredError"
    THEN [state |-> "TokenExpired", error |-> UnauthorizedException("Unauthorized"),
          user |-> None]
    ELSE LET v == JwtStrategy_validate(us, token.payload)
         IN  IF v.user = None
             THEN [state |-> "AccountRejected", error |-> v.error, user |-> None]
             ELSE [state |-> "Authorized", error |-> NoError, user |-> v.user]

\* AuthGuard('jwt-refresh') (RefreshTokenGuard): body field refreshToken, verified
\* with JWT_REFRESH_SECRET, then RefreshTokenStrategy.validate
AuthGuardJwtRefresh(us, cfg, now, token) ==
    IF token = None
    THEN [state |-> "TokenMissing", error |-> UnauthorizedException("Unauthorized"),
          user |-> None]
    ELSE IF jwtVerify(token, cfg.JWT_REFRESH_SECRET, now) = "JsonWebTokenError"
    THEN [state |-> "TokenInvalid", error |-> UnauthorizedException("Unauthorized"),
          user |-> None]
    ELSE IF jwtVerify(token, cfg.JWT_REFRESH_SECRET, now) = "TokenExpiredError"
    THEN [state |-> "TokenExpired", error |-> UnauthorizedException("Unauthorized"),
          user |-> None]
    ELSE LET v == RefreshTokenStrategy_validate(us, token.payload)
         IN  IF v.user = None
             THEN [state |-> "AccountRejected", error |-> v.error, user |-> None]
             ELSE [state |-> "Authorized", error |-> NoError, user |-> v.user]

\* JwtAuthGuard.canActivate: @Public() routes skip the token validation
JwtAuthGuard_canActivate(us, cfg, now, route, token) ==
    IF "isPublic" \in DOMAIN route /\ route.isPublic
    THEN [state |-> "PublicBypass", error |-> NoError, user |-> None]
    ELSE AuthGuardJwt(us, cfg, now, token)

\* a check of the first required role only
hasRole_firstOnly(requiredRoles, user) ==
    user.role = requiredRoles[1]

\* requiredRoles.some(role => user.role === role)
hasRole(requiredRoles, user) ==
    \E i \in DOMAIN requiredRoles : user.role = requiredRoles[i]

\* RolesGuard.canActivate; user is request.user, None when nothing is attached
RolesGuard_canActivate(route, user) ==
    IF "roles" \notin DOMAIN route \/ Len(route.roles) = 0
    THEN [allow |-> TRUE, error |-> NoError]
    ELSE IF user = None
    THEN [allow |-> FALSE, error |-> UnauthorizedException("User not authenticated")]
    ELSE IF ~hasRole(route.roles, user)
    THEN [allow |-> FALSE,
          error |-> UnauthorizedException("Access denied. Required roles")]
    ELSE [allow |-> TRUE, error |-> NoError]

----------------------------------------------------------------------------
(* UsersService *)

\* a projection that forgets to drop the password
excludePassword_keepsAll(user) == user

\* UsersService.excludePassword
excludePassword(user) ==
    [f \in (DOMAIN user) \ {"password"} |-> user[f]]

\* UsersService.findOne
findOne(us, id) ==
    LET user == findUniqueById(us, id)
    IN  IF user = None \/ user.deleted
        THEN [error |-> NotFoundException("User with ID not found"), user |-> None]
        ELSE [error |-> NoError, user |-> excludePassword(user)]

\* create that looks up the email only
create_emailOnly(us, createUserDto) ==
    LET email == toLowerCase(createUserDto.email)
        username == toLowerCase(createUserDto.username)
        data == [f \in DOMAIN createUserDto |->
                    IF f = "email" THEN email
                    ELSE IF f = "username" THEN username
                    ELSE IF f = "password" THEN bcryptHash(createUserDto.password)
                    ELSE createUserDto[f]]
        created == prismaCreate(us, data)
    IN  IF findUniqueByEmail(us, email) # None
        THEN [users |-> us, error |-> ConflictException("Email already exists"),
              user |-> None]
        ELSE IF ~created.ok
        THEN [users |-> us, error |-> PrismaP2002, user |-> None]
        ELSE [users |-> created.users, error |-> NoError,
              user |-> excludePassword(created.user)]

\* UsersService.create after both findUnique lookups found nothing
createAfterLookups(us, createUserDto) ==
    LET data == [f \in DOMAIN createUserDto |->
                    IF f = "email" THEN toLowerCase(createUserDto.email)
                    ELSE IF f = "username" THEN toLowerCase(createUserDto.username)
                    ELSE IF f = "password" THEN bcryptHash(createUserDto.password)
                    ELSE createUserDto[f]]
        created == prismaCreate(us, data)
    IN  IF ~created.ok
        THEN [users |-> us, error |-> PrismaP2002, user |-> None]
        ELSE [users |-> created.users, error |-> NoError,
              user |-> excludePassword(created.user)]

\* the lookups of UsersService.create: the conflict they throw, or NoError
createLookups(us, createUserDto) ==
    IF findUniqueByEmail(us, toLowerCase(createUserDto.email)) # None
    THEN ConflictException("Email already exists")
    ELSE IF findUniqueByUsername(us, toLowerCase(createUserDto.username)) # None
    THEN ConflictException("Username already exists")
    ELSE NoError

\* UsersService.create
create(us, createUserDto) ==
    IF createLookups(us, createUserDto) # NoError
    THEN [users |-> us, error |-> createLookups(us, createUserDto), user |-> None]
    ELSE createAfterLookups(us, createUserDto)

\* UsersService.update after `await this.findOne(id)` returned a user
updateAfterFindOne(us, id, updateUserDto) ==
    [users |-> prismaUpdate(us, id, updateUserDto), error |-> NoError,
     user |-> excludePassword(prismaUpdate(us, id, updateUserDto)[id])]

\* UsersService.update
update(us, id, updateUserDto) ==
    IF findOne(us, id).user = None
    THEN [users |-> us, error |-> findOne(us, id).error, user |-> None]
    ELSE updateAfterFindOne(us, id, updateUserDto)

\* UsersService.remove after `await this.findOne(id)` returned a user
removeAfterFindOne(us, id) ==
    LET us2 == prismaUpdate(us, id, [deleted |-> TRUE, status |-> "DELETED"])
    IN  [users |-> us2, error |-> NoError, user |-> excludePassword(us2[id])]

\* a restore that clears the deleted flag and leaves the status
restoreAfterFindUnique_flagOnly(us, id) ==
    LET us2 == prismaUpdate(us, id, [deleted |-> FALSE])
    IN  [users |-> us2, error |-> NoError, user |-> excludePassword(us2[id])]

\* UsersService.restore after findUnique returned a soft-deleted user
restoreAfterFindUnique(us, id) ==
    LET us2 == prismaUpdate(us, id, [deleted |-> FALSE, status |-> "ACTIVE"])
    IN  [users |-> us2, error |-> NoError, user |-> excludePassword(us2[id])]

\* remove that checks only that the row exists
remove_unchecked(us, id) ==
    IF findUniqueById(us, id) = None
    THEN [users |-> us, error |-> NotFoundException("User with ID not found"),
          user |-> None]
    ELSE LET us2 == prismaUpdate(us, id, [deleted |-> TRUE, status |-> "DELETED"])
         IN  [users |-> us2, error |-> NoError, user |-> excludePassword(us2[id])]

\* UsersService.remove
remove(us, id) ==
    IF findOne(us, id).user = None
    THEN [users |-> us, error |-> findOne(us, id).error, user |-> None]
    ELSE removeAfterFindOne(us, id)

\* UsersService.restore
restore(us, id) ==
    LET user == findUniqueById(us, id)
    IN  IF user = None
        THEN [users |-> us, error |-> NotFoundException("User with ID not found"),
              user |-> None]
        ELSE IF ~user.deleted
        THEN [users |-> us, error |-> ConflictException("User is not deleted"),
              user |-> None]
        ELSE restoreAfterFindUnique(us, id)

----------------------------------------------------------------------------
(* Requests *)

LoginDtos == [email : InputEmails, password : InputPasswords]

GoogleUsers ==
    [email : InputEmails, firstName : {"Google"}, lastName : {"User"},
     picture : InputPictures]

CreateUserDtos ==
    [email : InputEmails, username : InputUsernames, firstName : {"First"},
     lastName : {"Last"}, password : {"SecureP@ss1"}, campus : {"BINALBAGAN"}]

UpdateUserDtos ==
    {[status |-> s] : s \in InputStatuses} \cup {[role |-> r] : r \in InputRoles}

\* route metadata read by the Reflector: isPublic (@Public) and roles (@Roles)
Routes ==
    { [name |-> "health", isPublic |-> TRUE],
      [name |-> "profile"],
      [name |-> "users"],
      [name |-> "admin-only", roles |-> <<"ADMIN">>] }

\* a token signed by someone who knows neither secret
ForgedToken ==
    jwtSign(refreshPayload(1, toLowerCase(<<"A",".","b","@","u">>)),
            "forged", refreshExpirationSeconds, 0)

\* what a client can send as a token: nothing, a forgery, or a token it holds
PresentableTokens ==
    {None, ForgedToken}
    \cup {p.accessToken : p \in issued} \cup {p.refreshToken : p \in issued}

\* a pair as the client holds it: uses counts the successful refreshes made
\* with its refresh token, up to MaxUses
Held(tokens) == tokens @@ [uses |-> 0]

\* the held pair after its refresh token was accepted once more
Used(t) ==
    {IF p.refreshToken = t /\ p.uses < MaxUses THEN [p EXCEPT !.uses = p.uses + 1]
     ELSE p : p \in issued}

\* the client stores the pair it received in place of the one it holds, or
\* keeps the one it holds
Remember(tokens) ==
    IF tokens # None
    THEN {issued, {Held(tokens)}}
    ELSE {issued}

Resp(op, req, error, tokens, user, guard, handlerRan) ==
    [op |-> op, req |-> req, error |-> error, tokens |-> tokens, user |-> user,
     guard |-> guard, handlerRan |-> handlerRan]

----------------------------------------------------------------------------
(* The state machine *)

Init ==
    /\ config \in Configs
    /\ phase = "boot"
    /\ users = <<>>
    /\ clock = [now |-> 0, ticks |-> 0]
    /\ issued = {}
    /\ resp = Resp("none", None, NoError, None, None, "none", FALSE)
    /\ inflight = <<>>

\* a bootstrap that never reads the secrets, leaving their absence to the
\* first signature
Bootstrap_unchecked ==
    /\ phase = "boot"
    /\ phase' = "running"
    /\ UNCHANGED <<config, users, clock, issued, resp, inflight>>

\* Nest instantiates JwtStrategy and RefreshTokenStrategy; each constructor
\* throws when its secret is not defined
Bootstrap ==
    /\ phase = "boot"
    /\ phase' = IF config.JWT_SECRET = null \/ config.JWT_REFRESH_SECRET = null
                THEN "failed" ELSE "running"
    /\ UNCHANGED <<config, users, clock, issued, resp, inflight>>

\* time passes
Tick ==
    /\ phase = "running"
    /\ clock.ticks < MaxTicks
    /\ \E d \in {accessExpirationSeconds, refreshExpirationSeconds} :
          clock' = [now |-> clock.now + d, ticks |-> clock.ticks + 1]
    /\ UNCHANGED <<config, phase, users, issued, resp, inflight>>

\* POST /auth/login
Login ==
    /\ phase = "running"
    /\ \E dto \in LoginDtos :
          LET r == login(users, config, clock.now, dto)
          IN  /\ users' = r.users
              /\ resp' = Resp("login", dto, r.error, r.tokens, r.user, "PublicBypass",
                              TRUE)
              /\ issued' \in Remember(r.tokens)
    /\ UNCHANGED <<config, phase, clock, inflight>>

\* GET /auth/google/callback, after the OAuth handshake
GoogleLogin ==
    /\ phase = "running"
    /\ \E g \in GoogleUsers :
          LET r == googleLogin(users, config, clock.now, g)
          IN  /\ users' = r.users
              /\ resp' = Resp("googleLogin", g, r.error, r.tokens, r.user,
                              "PublicBypass", TRUE)
              /\ issued' \in Remember(r.tokens)
    /\ UNCHANGED <<config, phase, clock, inflight>>

\* POST /auth/refresh: RefreshTokenGuard, then AuthController.refresh
Refresh ==
    /\ phase = "running"
    /\ \E t \in PresentableTokens :
          LET g == AuthGuardJwtRefresh(users, config, clock.now, t)
              r == refreshTokens(users, config, clock.now, g.user.id)
          IN  IF g.state # "Authorized"
              THEN /\ resp' = Resp("refresh", [refreshToken |-> t], g.error, None,
                                   None, g.state, FALSE)
                   /\ issued' = issued
              ELSE /\ resp' = Resp("refresh", [refreshToken |-> t], r.error, r.tokens,
                                   None, g.state, TRUE)
                   /\ issued' \in IF r.tokens # None
                                  THEN {Used(t), {Held(r.tokens)}}
                                  ELSE {issued}
    /\ UNCHANGED <<config, phase, users, clock, inflight>>

\* the answer to a request to a route behind the global JwtAuthGuard and the
\* RolesGuard
RequestResp(route, t) ==
    LET g == JwtAuthGuard_canActivate(users, config, clock.now, route, t)
        rg == RolesGuard_canActivate(route, g.user)
        req == [route |-> route, authorization |-> t]
    IN  IF g.state \notin {"PublicBypass", "Authorized"}
        THEN Resp("request", req, g.error, None, None, g.state, FALSE)
        ELSE IF ~rg.allow
        THEN Resp("request", req, rg.error, None, g.user, g.state, FALSE)
        ELSE Resp("request", req, NoError, None, g.user, g.state, TRUE)

\* a request to a route behind the global JwtAuthGuard and the RolesGuard
Request ==
    /\ phase = "running"
    /\ \E route \in Routes, t \in PresentableTokens :
          resp' = RequestResp(route, t)
    /\ UNCHANGED <<config, phase, users, clock, issued, inflight>>

\* UsersService.create
Create ==
    /\ phase = "running"
    /\ \E dto \in CreateUserDtos :
          LET r == create(users, dto)
          IN  /\ users' = r.users
              /\ resp' = Resp("create", dto, r.error, None, r.user, "none", TRUE)
    /\ UNCHANGED <<config, phase, clock, issued, inflight>>

\* UsersService.update
Update ==
    /\ phase = "running"
    /\ \E id \in 1..(Len(users) + 1), dto \in UpdateUserDtos :
          LET r == update(users, id, dto)
          IN  /\ users' = r.users
              /\ resp' = Resp("update", [id |-> id, data |-> dto], r.error, None,
                              r.user, "none", TRUE)
    /\ UNCHANGED <<config, phase, clock, issued, inflight>>

\* UsersService.remove
Remove ==
    /\ phase = "running"
    /\ \E id \in 1..(Len(users) + 1) :
          LET r == remove(users, id)
          IN  /\ users' = r.users
              /\ resp' = Resp("remove", [id |-> id], r.error, None, r.user, "none",
                              TRUE)
    /\ UNCHANGED <<config, phase, clock, issued, inflight>>

\* UsersService.restore
Restore ==
    /\ phase = "running"
    /\ \E id \in 1..(Len(users) + 1) :
          LET r == restore(users, id)
          IN  /\ users' = r.users
              /\ resp' = Resp("restore", [id |-> id], r.error, None, r.user, "none",
                              TRUE)
    /\ UNCHANGED <<config, phase, clock, issued, inflight>>

Next ==
    \/ Bootstrap
    \/ Tick
    \/ Login
    \/ GoogleLogin
    \/ Refresh
    \/ Request
    \/ Create
    \/ Update
    \/ Remove
    \/ Restore

Spec == Init /\ [][Next]_vars

----------------------------------------------------------------------------
(* RolesGuard.canActivate on its own: every @Roles list and every request.user *)

\* @Roles(...) argument lists of up to MaxRoles roles
RoleLists == UNION {[1..n -> UserRole] : n \in 0..MaxRoles}

\* handlers without @Roles and handlers with each list
RoleRoutes ==
    {[name |-> "handler"]} \cup {[name |-> "handler", roles |-> l] : l \in RoleLists}

\* request.user: nothing attached, or the identity JwtStrategy.validate attached
Identities ==
    {None} \cup
    {SelectedUser([NewRow(<<>>, [email |-> <<"a", "@", "u">>, username |-> <<"a">>,
                                 firstName |-> "First", lastName |-> "Last",
                                 password |-> bcryptHash("SecureP@ss1"),
                                 campus |-> "TALISAY"])
                   EXCEPT !.role = r, !.status = "ACTIVE"]) : r \in UserRole}

InitRoles ==
    /\ config = [JWT_SECRET |-> "k1", JWT_REFRESH_SECRET |-> "k2",
                 DEFAULT_USER_PASSWORD |-> null, DEFAULT_USER_ROLE |-> null,
                 DEFAULT_USER_CAMPUS |-> null]
    /\ phase = "running"
    /\ users = <<>>
    /\ clock = [now |-> 0, ticks |-> 0]
    /\ issued = {}
    /\ inflight = <<>>
    /\ \E route \in RoleRoutes, user \in Identities :
          resp = Resp("pending", [route |-> route, user |-> user], NoError, None,
                      None, "none", FALSE)

\* the guard runs on the pending request
CanActivate ==
    /\ resp.op = "pending"
    /\ LET rg == RolesGuard_canActivate(resp.req.route, resp.req.user)
       IN  resp' = Resp("canActivate", resp.req, rg.error, None, resp.req.user,
                        "none", rg.allow)
    /\ UNCHANGED <<config, phase, users, clock, issued, inflight>>

NextRoles == CanActivate

SpecRoles == InitRoles /\ [][NextRoles]_vars

----------------------------------------------------------------------------
(* Google callbacks that interleave between the awaits of googleLogin *)

\* a callback that has not started
IdleRequest ==
    [pc |-> "idle", googleUser |-> None, found |-> None, thrown |-> NoError,
     outcome |-> None]

\* an exception other than a unique-index failure, thrown inside the try block
InternalError == [name |-> "Error", status |-> 500, message |-> "connection lost"]

InitRace ==
    /\ config \in {c \in Configs : c.JWT_SECRET # null /\ c.JWT_REFRESH_SECRET # null}
    /\ phase = "running"
    /\ users \in {<<>>} \cup {create(<<>>, dto).users : dto \in CreateUserDtos}
    /\ clock = [now |-> 0, ticks |-> 0]
    /\ issued = {}
    /\ resp = Resp("none", None, NoError, None, None, "none", FALSE)
    /\ inflight = [i \in 1..MaxRequests |-> IdleRequest]

\* googleLogin up to the answer of `await this.prisma.user.findFirst`
RaceLookup ==
    /\ \E i \in DOMAIN inflight, g \in GoogleUsers :
          /\ inflight[i].pc = "idle"
          /\ inflight' = [inflight EXCEPT ![i] =
                            [pc |-> "lookedUp", googleUser |-> g,
                             found |-> findFirstByEmail(users, g.email),
                             thrown |-> NoError, outcome |-> None]]
    /\ UNCHANGED <<config, phase, users, clock, issued, resp>>

\* the rest of googleLogin and the redirect of googleAuthCallback
RaceComplete ==
    /\ \E i \in DOMAIN inflight :
          /\ inflight[i].pc = "lookedUp"
          /\ LET r == googleLoginAfterLookup(users, config, clock.now,
                                             inflight[i].googleUser, inflight[i].found)
             IN  /\ users' = r.users
                 /\ resp' = Resp("googleLogin", inflight[i].googleUser, r.error,
                                 r.tokens, r.user, "PublicBypass", TRUE)
                 /\ inflight' = [inflight EXCEPT ![i] =
                                   [@ EXCEPT !.pc = "done", !.thrown = r.error,
                                             !.outcome = googleAuthCallback(r)]]
    /\ UNCHANGED <<config, phase, clock, issued>>

NextRace ==
    \/ RaceLookup
    \/ RaceComplete

SpecRace == InitRace /\ [][NextRace]_vars

----------------------------------------------------------------------------
(* One client that keeps the pair of one login while the account behind it is
   deactivated, soft-deleted, reactivated and restored; the held pair also
   remembers whether its access token was ever refused for the account's
   state *)

\* the held pair after its access token was refused for the account's state
Rejected(t) ==
    {IF p.accessToken = t THEN [p EXCEPT !.rejected = TRUE] ELSE p : p \in issued}

InitRevoke ==
    /\ config \in {c \in Configs : c.JWT_SECRET # null /\ c.JWT_REFRESH_SECRET # null}
    /\ phase = "running"
    /\ clock = [now |-> 0, ticks |-> 0]
    /\ \E dto \in CreateUserDtos :
          LET us == update(create(<<>>, dto).users, 1, [status |-> "ACTIVE"]).users
              r == login(us, config, clock.now,
                         [email |-> dto.email, password |-> dto.password])
          IN  /\ users = us
              /\ issued = {Held(r.tokens) @@ [rejected |-> FALSE]}
    /\ resp = Resp("none", None, NoError, None, None, "none", FALSE)
    /\ inflight = <<>>

\* a request of the client; a refusal because of the account's state is
\* remembered with the pair
RequestHeld ==
    /\ phase = "running"
    /\ \E route \in Routes, t \in PresentableTokens :
          /\ resp' = RequestResp(route, t)
          /\ issued' = IF resp'.guard = "AccountRejected" THEN Rejected(t)
                        ELSE issued
    /\ UNCHANGED <<config, phase, users, clock, inflight>>

NextRevoke ==
    \/ Tick
    \/ RequestHeld
    \/ Update
    \/ Remove
    \/ Restore

SpecRevoke == InitRevoke /\ [][NextRevoke]_vars

----------------------------------------------------------------------------
(* Concurrent requests to the users endpoints and the federated login: each
   handler runs up to the answer of its lookup in one step and from there to
   its response in another, and steps of different requests interleave *)

\* a request of the users endpoints: pc is "found" after its lookup let it
\* pass and "done" after its response
UsersRequest(pc, op, req, thrown, outcome) ==
    [pc |-> pc, op |-> op, req |-> req, thrown |-> thrown, outcome |-> outcome]

\* what a handler leaves when its lookup made it throw
Thrown(i, op, req, error) ==
    /\ inflight' = [inflight EXCEPT ![i] = UsersRequest("done", op, req, error, None)]
    /\ resp' = Resp(op, req, error, None, None, "none", TRUE)
    /\ users' = users

\* what a handler leaves when its lookup let it pass
Passed(i, op, req) ==
    /\ inflight' = [inflight EXCEPT ![i] = UsersRequest("found", op, req, NoError,
                                                        None)]
    /\ UNCHANGED <<users, resp>>

\* what a handler leaves after its write r
Written(i, r) ==
    /\ users' = r.users
    /\ inflight' = [inflight EXCEPT ![i] =
                      UsersRequest("done", @.op, @.req, r.error, r.user)]
    /\ resp' = Resp(inflight[i].op, inflight[i].req, r.error, None, r.user, "none",
                    TRUE)

\* UsersService.create up to the answers of its two findUnique lookups
CreateLookups ==
    /\ \E i \in DOMAIN inflight, dto \in CreateUserDtos :
          /\ inflight[i].pc = "idle"
          /\ IF createLookups(users, dto) # NoError
             THEN Thrown(i, "create", dto, createLookups(users, dto))
             ELSE Passed(i, "create", dto)
    /\ UNCHANGED <<config, phase, clock, issued>>

\* UsersService.create: bcrypt.hash and prisma.user.create
CreateWrite ==
    /\ \E i \in DOMAIN inflight :
          /\ inflight[i].pc = "found" /\ inflight[i].op = "create"
          /\ Written(i, createAfterLookups(users, inflight[i].req))
    /\ UNCHANGED <<config, phase, clock, issued>>

\* UsersService.update up to the answer of `await this.findOne(id)`
UpdateFindOne ==
    /\ \E i \in DOMAIN inflight, id \in 1..(Len(users) + 1), dto \in UpdateUserDtos :
          /\ inflight[i].pc = "idle"
          /\ IF findOne(users, id).user = None
             THEN Thrown(i, "update", [id |-> id, data |-> dto],
                         findOne(users, id).error)
             ELSE Passed(i, "update", [id |-> id, data |-> dto])
    /\ UNCHANGED <<config, phase, clock, issued>>

\* UsersService.update: prisma.user.update with the request's data
UpdateWrite ==
    /\ \E i \in DOMAIN inflight :
          /\ inflight[i].pc = "found" /\ inflight[i].op = "update"
          /\ Written(i, updateAfterFindOne(users, inflight[i].req.id,
                                           inflight[i].req.data))
    /\ UNCHANGED <<config, phase, clock, issued>>

\* UsersService.remove up to the answer of `await this.findOne(id)`
RemoveFindOne ==
    /\ \E i \in DOMAIN inflight, id \in 1..(Len(users) + 1) :
          /\ inflight[i].pc = "idle"
          /\ IF findOne(users, id).user = None
             THEN Thrown(i, "remove", [id |-> id], findOne(users, id).error)
             ELSE Passed(i, "remove", [id |-> id])
    /\ UNCHANGED <<config, phase, clock, issued>>

\* UsersService.remove: prisma.user.update to deleted, DELETED
RemoveWrite ==
    /\ \E i \in DOMAIN inflight :
          /\ inflight[i].pc = "found" /\ inflight[i].op = "remove"
          /\ Written(i, removeAfterFindOne(users, inflight[i].req.id))
    /\ UNCHANGED <<config, phase, clock, issued>>

\* UsersService.restore up to the answer of its findUnique
RestoreFindUnique ==
    /\ \E i \in DOMAIN inflight, id \in 1..(Len(users) + 1) :
          /\ inflight[i].pc = "idle"
          /\ IF restore(users, id).error # NoError
             THEN Thrown(i, "restore", [id |-> id], restore(users, id).error)
             ELSE Passed(i, "restore", [id |-> id])
    /\ UNCHANGED <<config, phase, clock, issued>>

\* UsersService.restore: prisma.user.update to not deleted, ACTIVE
RestoreWrite ==
    /\ \E i \in DOMAIN inflight :
          /\ inflight[i].pc = "found" /\ inflight[i].op = "restore"
          /\ Written(i, restoreAfterFindUnique(users, inflight[i].req.id))
    /\ UNCHANGED <<config, phase, clock, issued>>

NextUsers ==
    \/ CreateLookups
    \/ CreateWrite
    \/ UpdateFindOne
    \/ UpdateWrite
    \/ RemoveFindOne
    \/ RemoveWrite
    \/ RestoreFindUnique
    \/ RestoreWrite
    \/ RaceLookup
    \/ RaceComplete

SpecUsers == InitRace /\ [][NextUsers]_vars

----------------------------------------------------------------------------
(* Properties: deleted and inactive accounts *)

\* C1: an account marked deleted cannot authenticate.  A login with its e-mail
\* address fails with Unauthorized whatever the password, a refresh with a
\* validly signed, unexpired refresh token naming it fails with Unauthorized,
\* and a guarded request with a validly signed, unexpired access token naming
\* it fails with Unauthorized and never reaches the handler.
C1_DeletedAccountCannotAuthenticate ==
    /\ resp.op = "login" =>
          \A i \in DOMAIN users :
             users[i].deleted /\ users[i].email = toLowerCase(resp.req.email)
             => /\ resp.error.name = "UnauthorizedException"
                /\ resp.error.status = 401
                /\ resp.tokens = None
    /\ ( /\ resp.op = "refresh"
         /\ resp.req.refreshToken # None
         /\ jwtVerify(resp.req.refreshToken, config.JWT_REFRESH_SECRET, clock.now)
               = "valid"
         /\ resp.req.refreshToken.payload.sub \in DOMAIN users
         /\ users[resp.req.refreshToken.payload.sub].deleted )
       => /\ resp.error.name = "UnauthorizedException"
          /\ resp.error.status = 401
          /\ resp.tokens = None
          /\ ~resp.handlerRan
    /\ ( /\ resp.op = "request"
         /\ "isPublic" \notin DOMAIN resp.req.route
         /\ resp.req.authorization # None
         /\ jwtVerify(resp.req.authorization, config.JWT_SECRET, clock.now) = "valid"
         /\ resp.req.authorization.payload.sub \in DOMAIN users
         /\ users[resp.req.authorization.payload.sub].deleted )
       => /\ resp.error.name = "UnauthorizedException"
          /\ resp.error.status = 401
          /\ ~resp.handlerRan

\* a guarded request carrying a still valid access token of a deleted account
C1_Witness ==
    /\ resp.op = "request"
    /\ "isPublic" \notin DOMAIN resp.req.route
    /\ resp.req.authorization # None
    /\ jwtVerify(resp.req.authorization, config.JWT_SECRET, clock.now) = "valid"
    /\ payloadType(resp.req.authorization.payload) = null
    /\ resp.req.authorization.payload.sub \in DOMAIN users
    /\ users[resp.req.authorization.payload.sub].deleted
    /\ resp.error.status = 401

\* C2: login checks the status before the password.  A login for an account
\* that exists, is not deleted and is not ACTIVE fails with the account-not-
\* active failure whether or not the password is right, a wrong password
\* included.
C2_StatusCheckedBeforePassword ==
    resp.op = "login" =>
       \A i \in DOMAIN users :
          ( /\ ~users[i].deleted
            /\ users[i].email = toLowerCase(resp.req.email)
            /\ users[i].status # "ACTIVE" )
          => /\ resp.error = loginNotActive
             /\ resp.error # loginUserNotFound
             /\ resp.tokens = None

\* a login with a wrong password for an account that is not ACTIVE
C2_Witness ==
    /\ resp.op = "login"
    /\ \E i \in DOMAIN users :
          /\ ~users[i].deleted
          /\ users[i].email = toLowerCase(resp.req.email)
          /\ users[i].status # "ACTIVE"
          /\ ~bcryptCompare(resp.req.password, users[i].password)
    /\ resp.error = loginNotActive

\* C3: the access guard looks at the account as it is when the request
\* arrives.  A guarded request with a validly signed, unexpired token whose
\* account is not ACTIVE at that moment is rejected with Unauthorized and the
\* handler does not run, whenever the token was issued.
C3_GuardRejectsNonActiveAccount ==
    ( /\ resp.op = "request"
      /\ "isPublic" \notin DOMAIN resp.req.route
      /\ resp.req.authorization # None
      /\ jwtVerify(resp.req.authorization, config.JWT_SECRET, clock.now) = "valid"
      /\ resp.req.authorization.payload.sub \in DOMAIN users
      /\ users[resp.req.authorization.payload.sub].status # "ACTIVE" )
    => /\ resp.error.name = "UnauthorizedException"
       /\ resp.error.status = 401
       /\ resp.guard = "AccountRejected"
       /\ ~resp.handlerRan

\* a guarded request with a valid access token of an account that was set
\* INACTIVE and is not deleted
C3_Witness ==
    /\ resp.op = "request"
    /\ "isPublic" \notin DOMAIN resp.req.route
    /\ resp.req.authorization # None
    /\ jwtVerify(resp.req.authorization, config.JWT_SECRET, clock.now) = "valid"
    /\ payloadType(resp.req.authorization.payload) = null
    /\ resp.req.authorization.payload.sub \in DOMAIN users
    /\ users[resp.req.authorization.payload.sub].status = "INACTIVE"
    /\ ~users[resp.req.authorization.payload.sub].deleted
    /\ ~resp.handlerRan

----------------------------------------------------------------------------
(* Properties: tokens *)

\* C4: a token issued as an access token (role claim, no type claim) is
\* rejected by the refresh validation with Unauthorized and no new pair is
\* issued, also when the access secret and the refresh secret are the same
\* string so that its signature verifies.
C4_AccessTokenRejectedByRefresh ==
    ( /\ resp.op = "refresh"
      /\ resp.req.refreshToken # None
      /\ "role" \in DOMAIN resp.req.refreshToken.payload
      /\ payloadType(resp.req.refreshToken.payload) # "refresh" )
    => /\ resp.error.name = "UnauthorizedException"
       /\ resp.error.status = 401
       /\ resp.tokens = None
       /\ ~resp.handlerRan

\* both secrets are the same string, the access token of an ACTIVE account
\* passes the signature and expiry checks of the refresh guard and is rejected
\* for its type
C4_Witness ==
    /\ config.JWT_SECRET = config.JWT_REFRESH_SECRET
    /\ resp.op = "refresh"
    /\ resp.req.refreshToken # None
    /\ "role" \in DOMAIN resp.req.refreshToken.payload
    /\ jwtVerify(resp.req.refreshToken, config.JWT_REFRESH_SECRET, clock.now) = "valid"
    /\ resp.req.refreshToken.payload.sub \in DOMAIN users
    /\ users[resp.req.refreshToken.payload.sub].status = "ACTIVE"
    /\ ~users[resp.req.refreshToken.payload.sub].deleted
    /\ resp.error = UnauthorizedException("Invalid token type")

\* C5: a token issued as a refresh token (type claim "refresh") is rejected by
\* the access guard on a guarded route, also when the access secret and the
\* refresh secret are the same string.
C5_RefreshTokenRejectedByAccessGuard ==
    ( /\ resp.op = "request"
      /\ "isPublic" \notin DOMAIN resp.req.route
      /\ resp.req.authorization # None
      /\ payloadType(resp.req.authorization.payload) = "refresh" )
    => /\ resp.error.status = 401
       /\ resp.guard # "Authorized"
       /\ ~resp.handlerRan

\* C6: the claims survive signing and verification.  For every identity
\* (id, e-mail, role) the access token issued for it verifies under the access
\* secret and decodes to that id, e-mail and role, and the refresh token
\* verifies under the refresh secret and decodes to that id and e-mail and the
\* type "refresh"; the same holds, until the token's lifetime has passed, of
\* the pair every successful login returns for the account it returns.
C6_TokenClaimsRoundTrip ==
    /\ phase = "running" =>
          \A id \in 1..2, email \in {toLowerCase(e) : e \in InputEmails},
             role \in UserRole :
             LET t == generateTokens(config, clock.now, id, email, role)
             IN  /\ jwtVerify(t.accessToken, config.JWT_SECRET, clock.now) = "valid"
                 /\ t.accessToken.payload.sub = id
                 /\ t.accessToken.payload.email = email
                 /\ t.accessToken.payload.role = role
                 /\ jwtVerify(t.refreshToken, config.JWT_REFRESH_SECRET, clock.now)
                       = "valid"
                 /\ t.refreshToken.payload.sub = id
                 /\ t.refreshToken.payload.email = email
                 /\ payloadType(t.refreshToken.payload) = "refresh"
    /\ resp.op \in {"login", "googleLogin"} /\ resp.tokens # None =>
          /\ jwtVerify(resp.tokens.accessToken, config.JWT_SECRET, clock.now)
                = IF clock.now < resp.tokens.accessToken.payload.iat
                                    + accessExpirationSeconds
                  THEN "valid" ELSE "TokenExpiredError"
          /\ resp.tokens.accessToken.payload.sub = resp.user.id
          /\ resp.tokens.accessToken.payload.email = resp.user.email
          /\ resp.tokens.accessToken.payload.role = resp.user.role
          /\ jwtVerify(resp.tokens.refreshToken, config.JWT_REFRESH_SECRET, clock.now)
                = IF clock.now < resp.tokens.refreshToken.payload.iat
                                    + refreshExpirationSeconds
                  THEN "valid" ELSE "TokenExpiredError"
          /\ resp.tokens.refreshToken.payload.sub = resp.user.id
          /\ resp.tokens.refreshToken.payload.email = resp.user.email
          /\ payloadType(resp.tokens.refreshToken.payload) = "refresh"

\* a password login that returned a pair for an account whose role is not the
\* default one
C6_Witness ==
    /\ resp.op = "login"
    /\ resp.tokens # None
    /\ resp.user.role = "ADMIN"
    /\ resp.tokens.accessToken.payload.role = "ADMIN"
    /\ clock.now > 0

----------------------------------------------------------------------------
(* Properties: federated login and login failures *)

\* Google profiles the properties below feed to googleLogin: those of the
\* requests, and one whose address shares neither e-mail nor local part with
\* any of them
ProbeGoogleUsers ==
    GoogleUsers \cup
    [email : {<<"C", "+", "1", "@", "u">>}, firstName : {"Google"},
     lastName : {"User"}, picture : InputPictures]

\* C7 as stated: for an e-mail address that no account has, two federated
\* logins in sequence with the same profile create exactly one account on the
\* first call and none on the second, and between the two calls no stored
\* field of an account changes other than the avatar.
C7_FederatedLoginIdempotent_AsStated ==
    phase = "running" =>
       \A g \in ProbeGoogleUsers :
          findUniqueByEmail(users, toLowerCase(g.email)) = None
          => LET r1 == googleLogin(users, config, clock.now, g)
                 r2 == googleLogin(r1.users, config, clock.now, g)
             IN  /\ Len(r1.users) = Len(users) + 1
                 /\ Len(r2.users) = Len(r1.users)
                 /\ \A i \in DOMAIN r1.users :
                       \A f \in (DOMAIN r1.users[i]) \ {"profilePic"} :
                          r2.users[i][f] = r1.users[i][f]

\* C7, amended: the same, for an e-mail address that no account has and whose
\* generated username no account has; the second call finds the account the
\* first call created.
C7_FederatedLoginIdempotent ==
    phase = "running" =>
       \A g \in ProbeGoogleUsers :
          ( /\ findUniqueByEmail(users, toLowerCase(g.email)) = None
            /\ findUniqueByUsername(users, usernameFromEmail(g.email)) = None )
          => LET r1 == googleLogin(users, config, clock.now, g)
                 r2 == googleLogin(r1.users, config, clock.now, g)
             IN  /\ Len(r1.users) = Len(users) + 1
                 /\ r1.error = NoError
                 /\ r1.user.email = toLowerCase(g.email)
                 /\ Len(r2.users) = Len(r1.users)
                 /\ r2.error = NoError
                 /\ r2.user.id = r1.user.id
                 /\ \A i \in DOMAIN r1.users :
                       \A f \in (DOMAIN r1.users[i]) \ {"profilePic"} :
                          r2.users[i][f] = r1.users[i][f]

\* a federated login has answered with the account it provisioned, the only
\* stored account, which is exactly the row a first call creates from the
\* profile of the request: the store after the first call and after any
\* repetition of it
C7_Witness ==
    /\ resp.op = "googleLogin"
    /\ resp.error = NoError
    /\ Len(users) = 1
    /\ users[1] = NewRow(<<>>, googleCreateData(config, resp.req))
    /\ resp.user = LoginUser(users[1])
    /\ resp.req.email # toLowerCase(resp.req.email)

\* C8 as stated: a login fails the same way when no account that is not
\* deleted has the e-mail address and when such an account exists and the
\* password is wrong.
C8_LoginFailureUniform_AsStated ==
    resp.op = "login" =>
       \A i \in DOMAIN users :
          ( /\ ~users[i].deleted
            /\ users[i].email = toLowerCase(resp.req.email)
            /\ ~bcryptCompare(resp.req.password, users[i].password) )
          => resp.error = login(<<>>, config, clock.now, resp.req).error

\* C8, amended: a login fails the same way when no account that is not deleted
\* has the e-mail address and when such an account exists, is ACTIVE, and the
\* password is wrong.
C8_LoginFailureUniform ==
    resp.op = "login" =>
       \A i \in DOMAIN users :
          ( /\ ~users[i].deleted
            /\ users[i].email = toLowerCase(resp.req.email)
            /\ users[i].status = "ACTIVE"
            /\ ~bcryptCompare(resp.req.password, users[i].password) )
          => /\ resp.error = login(<<>>, config, clock.now, resp.req).error
             /\ resp.tokens = None

\* a login with a wrong password for an ACTIVE account
C8_Witness ==
    /\ resp.op = "login"
    /\ \E i \in DOMAIN users :
          /\ ~users[i].deleted
          /\ users[i].email = toLowerCase(resp.req.email)
          /\ users[i].status = "ACTIVE"
          /\ ~bcryptCompare(resp.req.password, users[i].password)
    /\ resp.error.status = 401

----------------------------------------------------------------------------
(* Properties: the roles guard *)

\* C9: the roles guard allows a request exactly when the route's list of
\* required roles is absent or empty, or the identity attached to the request
\* has a role that is in the list.
C9_RolesGuardAllowsIff ==
    resp.op = "canActivate" =>
       ( resp.handlerRan <=>
            \/ "roles" \notin DOMAIN resp.req.route
            \/ resp.req.route.roles = <<>>
            \/ /\ resp.req.user # None
               /\ resp.req.user.role \in Range(resp.req.route.roles) )

\* the guard has allowed an identity whose role is the second of two
\* different required roles
C9_Witness ==
    /\ resp.op = "canActivate"
    /\ "roles" \in DOMAIN resp.req.route
    /\ Len(resp.req.route.roles) = 2
    /\ resp.req.user # None
    /\ resp.req.user.role = resp.req.route.roles[2]
    /\ resp.req.user.role # resp.req.route.roles[1]
    /\ resp.handlerRan

\* C10: when an identity is attached and its role is not in the non-empty list
\* of required roles, the roles guard fails with Forbidden (403), a failure
\* different from the one for a request with no identity attached.
C10_RoleMismatchIsForbidden ==
    ( /\ resp.op = "canActivate"
      /\ "roles" \in DOMAIN resp.req.route
      /\ resp.req.route.roles # <<>>
      /\ resp.req.user # None
      /\ resp.req.user.role \notin Range(resp.req.route.roles) )
    => /\ ~resp.handlerRan
       /\ resp.error.status = 403
       /\ resp.error.name # RolesGuard_canActivate(resp.req.route, None).error.name

----------------------------------------------------------------------------
(* Properties: refresh *)

C12_RefreshInvalidatesOldToken ==
    \A p \in issued : p.uses < 2

----------------------------------------------------------------------------
(* Properties: federated provisioning *)

\* C13: when googleLogin finds no account that is not deleted for the
\* lower-cased address and creates one, the new account has status PENDING
\* whatever the configured default role is, the configured default role (or
\* OFFICE_HEAD when none is configured), the configured default campus (or
\* TALISAY), and as avatar the provided picture, or the placeholder when none
\* is provided.
C13_ProvisioningDefaults ==
    phase = "running" =>
       \A g \in ProbeGoogleUsers :
          LET r == googleLogin(users, config, clock.now, g)
              row == r.users[Len(users) + 1]
          IN  findFirstByEmail(users, g.email) = None /\ r.error = NoError
              => /\ Len(r.users) = Len(users) + 1
                 /\ row.email = toLowerCase(g.email)
                 /\ row.status = "PENDING"
                 /\ row.role = IF config.DEFAULT_USER_ROLE = null THEN "OFFICE_HEAD"
                               ELSE config.DEFAULT_USER_ROLE
                 /\ row.campus = IF config.DEFAULT_USER_CAMPUS = null THEN "TALISAY"
                                 ELSE config.DEFAULT_USER_CAMPUS
                 /\ row.profilePic = IF g.picture = null THEN "no-photo.png"
                                     ELSE g.picture
                 /\ ~row.deleted

\* a federated login without picture has just created an account under an
\* environment whose default role is ADMIN
C13_Witness ==
    /\ resp.op = "googleLogin"
    /\ resp.error = NoError
    /\ resp.req.picture = null
    /\ config.DEFAULT_USER_ROLE = "ADMIN"
    /\ users[resp.user.id] = NewRow(<<>>, googleCreateData(config, resp.req))
    /\ users[resp.user.id].status = "PENDING"
    /\ users[resp.user.id].role = "ADMIN"
    /\ users[resp.user.id].profilePic = "no-photo.png"

\* C14: when googleLogin finds an account that is not deleted, the only stored
\* field it may change is the avatar, and it changes it only to a provided
\* picture that differs from the stored one; every other field of the account
\* and every other account stay as they were.
C14_ExistingAccountFrame ==
    phase = "running" =>
       \A g \in ProbeGoogleUsers :
          LET found == findFirstByEmail(users, g.email)
              r == googleLogin(users, config, clock.now, g)
          IN  found # None
              => /\ r.error = NoError
                 /\ Len(r.users) = Len(users)
                 /\ \A i \in DOMAIN users :
                       /\ \A f \in (DOMAIN users[i]) \ {"profilePic"} :
                             r.users[i][f] = users[i][f]
                       /\ i # found.id => r.users[i] = users[i]
                 /\ r.users[found.id].profilePic # found.profilePic
                    => /\ g.picture # null
                       /\ r.users[found.id].profilePic = g.picture

\* a federated login has replaced the avatar of an account that was made by
\* UsersService.create and activated, and left the rest of it alone
C14_Witness ==
    /\ resp.op = "googleLogin"
    /\ resp.error = NoError
    /\ resp.req.picture = "g.png"
    /\ users[resp.user.id].profilePic = "g.png"
    /\ users[resp.user.id].campus = "BINALBAGAN"
    /\ users[resp.user.id].firstName = "First"
    /\ users[resp.user.id].status = "ACTIVE"
    /\ users[resp.user.id].password = bcryptHash("SecureP@ss1")

----------------------------------------------------------------------------
(* Properties: concurrent first-time federated logins *)

\* C16: when two first-time Google callbacks for the same new address
\* interleave so that both lookups find no account, exactly one account with
\* that address is created, and the request that loses answers without
\* crashing with an outcome that identifies a uniqueness conflict, different
\* from the outcome of any other failure.
C16_RaceLoserGetsConflict ==
    \A i, j \in DOMAIN inflight :
       ( /\ i # j
         /\ inflight[i].pc = "done"
         /\ inflight[j].pc = "done"
         /\ inflight[i].found = None
         /\ inflight[j].found = None
         /\ toLowerCase(inflight[i].googleUser.email)
               = toLowerCase(inflight[j].googleUser.email)
         /\ inflight[i].thrown = NoError
         /\ inflight[j].thrown # NoError )
       => /\ Cardinality({k \in DOMAIN users :
                            users[k].email = toLowerCase(inflight[i].googleUser.email)})
                = 1
          /\ inflight[j].outcome.status < 500
          /\ inflight[j].outcome.tokens = None
          /\ inflight[j].outcome
                # googleAuthCallback([users |-> users, error |-> InternalError,
                                      tokens |-> None, user |-> None])

----------------------------------------------------------------------------
(* Properties: startup, the access guard, results, the frame of login *)

\* C17: when JWT_SECRET or JWT_REFRESH_SECRET is missing from the
\* configuration, startup fails: the process is never running, and no login,
\* refresh, guarded request or any other request is ever handled.
C17_MissingSecretFailsStartup ==
    config.JWT_SECRET = null \/ config.JWT_REFRESH_SECRET = null
    => /\ phase \in {"boot", "failed"}
       /\ resp.op = "none"
       /\ users = <<>>
       /\ issued = {}

\* startup has failed for want of the refresh secret
C17_Witness ==
    /\ phase = "failed"
    /\ config.JWT_SECRET # null
    /\ config.JWT_REFRESH_SECRET = null

C19_PasswordNeverReturned ==
    /\ resp.user # None => "password" \notin DOMAIN resp.user
    /\ phase = "running" =>
          /\ \A id \in DOMAIN users :
                findOne(users, id).user # None
                => "password" \notin DOMAIN findOne(users, id).user
          /\ \A t \in PresentableTokens \ {None} :
                /\ "password" \notin DOMAIN AuthGuardJwt(users, config, clock.now, t).user
                /\ "password" \notin
                      DOMAIN AuthGuardJwtRefresh(users, config, clock.now, t).user
                /\ "password" \notin DOMAIN t.payload

\* UsersService.create has answered with the account it stored, whose row
\* holds the hash
C19_Witness ==
    /\ resp.op = "create"
    /\ resp.user # None
    /\ users[resp.user.id].password = bcryptHash(resp.req.password)
    /\ resp.user.email = users[resp.user.id].email

\* C20: login writes nothing to the table of accounts, whether it succeeds or
\* fails: the table after the call is the table before it, the lastLoginAt
\* column included.
C20_LoginWritesNothing ==
    /\ phase = "running" =>
          \A dto \in LoginDtos : login(users, config, clock.now, dto).users = users
    /\ resp.op = "login" /\ resp.user # None
       => users[resp.user.id].lastLoginAt = None

\* a successful login, after which the account's lastLoginAt is still unset
C20_Witness ==
    /\ resp.op = "login"
    /\ resp.tokens # None
    /\ users[resp.user.id].lastLoginAt = None
    /\ users[resp.user.id].status = "ACTIVE"

\* C21: a refresh for an account whose status is not ACTIVE is rejected with an
\* Unauthorized error and yields no tokens, also when the refresh token is
\* correctly signed and unexpired: the refresh guard rejects it, and the
\* service called for such an account rejects it too.
C21_RefreshRejectedWhenNotActive ==
    /\ \A p \in issued :
          LET t == p.refreshToken
              u == findUniqueById(users, t.payload.sub)
          IN  (/\ jwtVerify(t, config.JWT_REFRESH_SECRET, clock.now) = "valid"
               /\ u # None
               /\ u.status # "ACTIVE")
              => /\ AuthGuardJwtRefresh(users, config, clock.now, t).state
                        = "AccountRejected"
                 /\ AuthGuardJwtRefresh(users, config, clock.now, t).error.status = 401
    /\ \A i \in Ids(users) :
          users[i].status # "ACTIVE"
          => LET r == refreshTokens(users, config, clock.now, i)
             IN  r.tokens = None /\ r.error.status = 401
    /\ (resp.op = "refresh" /\ resp.req.refreshToken # None /\ resp.tokens # None)
          => \E i \in Ids(users) :
                /\ i = resp.req.refreshToken.payload.sub
                /\ users[i].status = "ACTIVE"

\* a refresh token that was accepted while the account was ACTIVE is rejected,
\* still unexpired, after the account became INACTIVE
C21_Witness ==
    /\ resp.op = "refresh"
    /\ resp.error = UnauthorizedException("User account is not active")
    /\ resp.tokens = None
    /\ \E p \in issued :
          /\ p.refreshToken = resp.req.refreshToken
          /\ p.uses >= 1
          /\ clock.now < p.refreshToken.payload.exp
          /\ findUniqueById(users, p.refreshToken.payload.sub).status = "INACTIVE"
          /\ ~findUniqueById(users, p.refreshToken.payload.sub).deleted

\* C22: the access token a refresh returns carries the role and email the
\* store holds for the account at the time of the refresh, not the claims of
\* any earlier token: after a role change the next refresh returns an access
\* token with the new role.
C22_RefreshCarriesStoredClaims ==
    /\ \A i \in Ids(users) :
          LET r == refreshTokens(users, config, clock.now, i)
          IN  r.tokens # None
              => /\ r.tokens.accessToken.payload.sub = i
                 /\ r.tokens.accessToken.payload.role = users[i].role
                 /\ r.tokens.accessToken.payload.email = users[i].email
    /\ (resp.op = "refresh" /\ resp.tokens # None)
          => LET a == resp.tokens.accessToken.payload
             IN  /\ a.sub = resp.req.refreshToken.payload.sub
                 /\ a.role = users[a.sub].role
                 /\ a.email = users[a.sub].email

\* the client holds a pair issued under one role, and the refresh it just made
\* with that pair's refresh token returned an access token with another role
C22_Witness ==
    /\ resp.op = "refresh"
    /\ resp.tokens # None
    /\ \E p \in issued :
          /\ p.refreshToken = resp.req.refreshToken
          /\ p.accessToken.payload.role # resp.tokens.accessToken.payload.role
          /\ resp.tokens.accessToken.payload.role
                = users[p.accessToken.payload.sub].role

\* create requests that also name an email and a username no input uses
ProbeCreateUserDtos ==
    [email : InputEmails \cup {<<"C", "@", "u">>},
     username : InputUsernames \cup {<<"C", "d">>},
     firstName : {"First"}, lastName : {"Last"}, password : {"SecureP@ss1"},
     campus : {"BINALBAGAN"}]

\* C23: creating a user whose lower-cased email or lower-cased username
\* already belongs to a stored account, soft-deleted ones included, fails with
\* a Conflict whose message contains 'already exists' and leaves the store
\* unchanged; a create never leaves two accounts with one email or username.
C23_DuplicateCreateIsConflict ==
    \A dto \in ProbeCreateUserDtos :
       LET r == create(users, dto)
           taken == \E i \in Ids(users) :
                       \/ users[i].email = toLowerCase(dto.email)
                       \/ users[i].username = toLowerCase(dto.username)
       IN  /\ taken
               => /\ r.error.name = "ConflictException"
                  /\ r.error.status = 409
                  /\ r.error.message
                        \in {"Email already exists", "Username already exists"}
                  /\ r.users = users
           /\ ~taken => r.error = NoError /\ Len(r.users) = Len(users) + 1
           /\ \A i, j \in Ids(r.users) :
                 i # j => /\ r.users[i].email # r.users[j].email
                          /\ r.users[i].username # r.users[j].username

\* a create was refused because its username belongs to a soft-deleted
\* account with another email
C23_Witness ==
    /\ resp.op = "create"
    /\ resp.error = ConflictException("Username already exists")
    /\ \E i \in Ids(users) :
          /\ users[i].deleted
          /\ users[i].username = toLowerCase(resp.req.username)
          /\ users[i].email # toLowerCase(resp.req.email)

C25_TokenInvalidatedOnlyByExpiry ==
    \A p \in issued :
       LET t == p.accessToken
           u == findUniqueById(users, t.payload.sub)
           g == AuthGuardJwt(users, config, clock.now, t)
       IN  /\ t.payload.exp <= clock.now => g.state = "TokenExpired"
           /\ clock.now < t.payload.exp
               => /\ (u # None /\ ~u.deleted /\ u.status = "ACTIVE")
                       => g.state = "Authorized" /\ g.user.id = u.id
                  /\ ~(u # None /\ ~u.deleted /\ u.status = "ACTIVE")
                       => g.state = "AccountRejected"

\* the access token the client holds was refused because of the account's
\* state and, still unexpired, has just been accepted
C25_Witness ==
    /\ resp.op = "request"
    /\ resp.guard = "Authorized"
    /\ resp.handlerRan
    /\ \E p \in issued :
          /\ p.rejected
          /\ p.accessToken = resp.req.authorization
          /\ clock.now < p.accessToken.payload.exp

\* C26: the identity the access guard attaches, and so every decision of the
\* roles guard, uses the role the account has in the store at request time,
\* not the role claim of the access token: whatever role the account is given
\* after the token was issued, a request with that token is allowed or
\* rejected by the roles guard according to the new role.
C26_RoleFromStoreAtRequestTime ==
    /\ \A p \in issued, role \in UserRole, route \in Routes :
          LET t == p.accessToken
              u == findUniqueById(users, t.payload.sub)
              changed == update(users, t.payload.sub, [role |-> role])
              g == JwtAuthGuard_canActivate(changed.users, config, clock.now,
                                            route, t)
              rg == RolesGuard_canActivate(route, g.user)
          IN  (/\ clock.now < t.payload.exp
               /\ u # None /\ ~u.deleted /\ u.status = "ACTIVE"
               /\ "roles" \in DOMAIN route)
              => /\ changed.error = NoError
                 /\ g.state = "Authorized"
                 /\ g.user.role = role
                 /\ rg.allow <=> role \in Range(route.roles)
    /\ (resp.op = "request" /\ resp.guard = "Authorized")
          => /\ resp.user.role = users[resp.user.id].role
             /\ "roles" \in DOMAIN resp.req.route
                   => (resp.handlerRan
                         <=> users[resp.user.id].role \in Range(resp.req.route.roles))

\* a request to the ADMIN route was allowed with a held access token whose
\* role claim is not ADMIN, the account having been made ADMIN since
C26_Witness ==
    /\ resp.op = "request"
    /\ resp.req.route.name = "admin-only"
    /\ resp.handlerRan
    /\ \E p \in issued :
          /\ p.accessToken = resp.req.authorization
          /\ p.accessToken.payload.role = "OFFICE_HEAD"
          /\ users[p.accessToken.payload.sub].role = "ADMIN"

----------------------------------------------------------------------------
(* Properties: concurrent requests to the users endpoints *)

\* C27: in every state reachable by any interleaving of concurrent create,
\* update, remove, restore and federated-login requests, every account with
\* deleted = true has status = DELETED.
C27_DeletedImpliesStatusDeleted ==
    \A i \in Ids(users) : users[i].deleted => users[i].status = "DELETED"

\* C28: restore leaves the account with deleted = false and status = ACTIVE
\* whatever its status was before it was soft-deleted: an account that was
\* PENDING, INACTIVE or SUSPENDED when removed passes the status checks of
\* login, refresh and the access guard after restore.
C28_RestoreActivates ==
    /\ \A i \in Ids(users), s \in UserStatus \ {"DELETED"} :
          LET before == prismaUpdate(users, i, [deleted |-> FALSE, status |-> s])
              removed == remove(before, i)
              restored == restore(removed.users, i)
              us == restored.users
              r == refreshTokens(us, config, clock.now, i)
          IN  /\ removed.error = NoError
              /\ restored.error = NoError
              /\ ~us[i].deleted /\ us[i].status = "ACTIVE"
              /\ \A f \in DOMAIN us[i] \ {"deleted", "status"} :
                    us[i][f] = users[i][f]
              /\ \E pw \in InputPasswords :
                    login(us, config, clock.now,
                          [email |-> us[i].email, password |-> pw]).tokens # None
              /\ r.tokens # None
              /\ AuthGuardJwt(us, config, clock.now, r.tokens.accessToken).state
                    = "Authorized"
              /\ AuthGuardJwtRefresh(us, config, clock.now, r.tokens.refreshToken).state
                    = "Authorized"
    /\ (resp.op = "restore" /\ resp.error = NoError)
          => ~resp.user.deleted /\ resp.user.status = "ACTIVE"

\* the only requests made were a remove and a restore of an account that was
\* PENDING from its creation: both succeeded and the account is ACTIVE
C28_Witness ==
    /\ \A k \in DOMAIN inflight :
          \/ inflight[k].pc = "idle"
          \/ /\ inflight[k].pc = "done"
             /\ "op" \in DOMAIN inflight[k]
             /\ inflight[k].op \in {"remove", "restore"}
             /\ inflight[k].thrown = NoError
    /\ \E j, k \in DOMAIN inflight :
          /\ inflight[j].pc = "done" /\ inflight[k].pc = "done"
          /\ inflight[j].op = "remove" /\ inflight[k].op = "restore"
          /\ inflight[j].req.id = inflight[k].req.id
          /\ inflight[j].outcome.status = "DELETED"
          /\ users[inflight[k].req.id].status = "ACTIVE"
          /\ ~users[inflight[k].req.id].deleted

----------------------------------------------------------------------------
(* Properties: federated login against soft-deleted accounts and taken
   usernames *)

\* C29: a federated login for an email that belongs to a soft-deleted account
\* creates no account, changes no stored account and issues no tokens: the
\* lookup skips the deleted account and the create is refused by the unique
\* index on email, on every attempt until the account is restored.
C29_FederatedLoginOfDeletedAccountFails ==
    /\ \A g \in ProbeGoogleUsers, i \in Ids(users) :
          (users[i].deleted /\ users[i].email = toLowerCase(g.email))
          => LET r == googleLogin(users, config, clock.now, g)
                 after == googleLogin(restore(users, i).users, config, clock.now, g)
             IN  /\ findFirstByEmail(users, g.email) = None
                 /\ r.error = PrismaP2002
                 /\ r.users = users
                 /\ r.tokens = None
                 /\ googleAuthCallback(r).tokens = None
                 /\ googleLogin(r.users, config, clock.now, g) = r
                 /\ after.error = NoError
                 /\ after.tokens # None
                 /\ after.user.id = i
                 /\ Len(after.users) = Len(users)
    /\ (/\ resp.op = "googleLogin"
        /\ \E i \in Ids(users) :
              users[i].deleted /\ users[i].email = toLowerCase(resp.req.email))
          => resp.error = PrismaP2002 /\ resp.tokens = None /\ resp.user = None

\* a federated login for the address of a soft-deleted account has just
\* failed on the unique index
C29_Witness ==
    /\ resp.op = "googleLogin"
    /\ resp.error = PrismaP2002
    /\ resp.tokens = None
    /\ \E i \in Ids(users) :
          /\ users[i].deleted
          /\ users[i].status = "DELETED"
          /\ users[i].email = toLowerCase(resp.req.email)

\* C30: federated provisioning never creates two accounts with one username:
\* when the username derived from a new email (its lower-cased local part with
\* every character outside [a-z0-9] replaced by '_') is the username of a
\* stored account with another email, the login fails, no account is created
\* and no tokens are issued.
C30_DerivedUsernameCollisionFails ==
    /\ \A g \in ProbeGoogleUsers :
          LET r == googleLogin(users, config, clock.now, g)
              taken == \E i \in Ids(users) :
                          /\ users[i].username = usernameFromEmail(g.email)
                          /\ users[i].email # toLowerCase(g.email)
              known == \E i \in Ids(users) : users[i].email = toLowerCase(g.email)
          IN  /\ (taken /\ ~known)
                  => /\ r.error = PrismaP2002
                     /\ r.users = users
                     /\ r.tokens = None
                     /\ googleAuthCallback(r).tokens = None
              /\ (~taken /\ ~known)
                  => /\ r.error = NoError
                     /\ Len(r.users) = Len(users) + 1
                     /\ r.users[Len(r.users)].username = usernameFromEmail(g.email)
              /\ \A i, j \in Ids(r.users) :
                    i # j => r.users[i].username # r.users[j].username
    /\ \A i, j \in Ids(users) : i # j => users[i].username # users[j].username

\* a federated login for a new address has just failed because the username
\* derived from it belongs to an account with another address
C30_Witness ==
    /\ resp.op = "googleLogin"
    /\ resp.error = PrismaP2002
    /\ resp.tokens = None
    /\ \A i \in Ids(users) : users[i].email # toLowerCase(resp.req.email)
    /\ \E i \in Ids(users) : users[i].username = usernameFromEmail(resp.req.email)

====
